---- MODULE Spec2Model ----
(***************************************************************************)
(* The tiered response cache of the StreamKeeper Node backend              *)
(* (StreamKeeper-Node-Backend/cache/CacheManager.js) as a state machine.   *)
(*                                                                         *)
(* handle(endpoint, params, fetchFunction) is an async function with one   *)
(* suspension point, the await on fetchFunction().  It is modelled by two  *)
(* actions: Call (entry up to a return or up to the await) and Settle (the *)
(* continuation after the await).  Tick lets wall-clock time pass.         *)
(***************************************************************************)
EXTENDS Integers, Sequences, FiniteSets, TLC

VARIABLES
    baseCache,          \* this.baseCache        : key -> value
    lastBaseRefresh,    \* this.lastBaseRefresh  : ms
    flexCache,          \* this.flexCache        : Map in insertion order, a sequence of [k, v]
    flexAccessCounts,   \* this.flexAccessCounts : key -> count
    favoriteCache,      \* this.favoriteCache    : key -> value
    lastFavoriteReset,  \* this.lastFavoriteReset: ms
    now,                \* the wall clock read by new Date(), ms since construction
    calls,              \* per caller: where its handle() invocation stands
    ret,                \* how the latest handle() invocation to finish ended
    fetchLog,           \* every fetchFunction() invocation so far, in order
    driver,             \* what the callers have requested and received so far
    instance,           \* CacheManager.instance and what `new CacheManager()` returned
    store               \* a BaseCache and the outcome of the last call of one of its methods

vars == <<baseCache, lastBaseRefresh, flexCache, flexAccessCounts, favoriteCache,
          lastFavoriteReset, now, calls, ret, fetchLog, driver, instance, store>>

cacheVars == <<baseCache, lastBaseRefresh, flexCache, flexAccessCounts, favoriteCache,
               lastFavoriteReset>>

----------------------------------------------------------------------------
(* Configuration set by the constructor.                                   *)

refreshInterval == 8 * 60 * 60 * 1000

flexLimit == 100

flexClearAmount == 60

favoriteResetInterval == 24 * 60 * 60 * 1000

favoriteThreshold == 7

primaryEndpoints ==
    {"/movie/top_rated", "/movie/popular", "/movie/now_playing", "/movie/upcoming",
     "/tv/popular", "/tv/on_the_air", "/tv/airing_today", "/tv/top_rated"}

\* a blacklist that misses one endpoint
blacklistedEndpointsShort == {"/configuration", "/validate"}

blacklistedEndpoints == {"/configuration", "/validate", "/health"}

----------------------------------------------------------------------------
(* Bounds of the model.                                                    *)

\* fetchFunction() invocations in one behaviour of Spec and of SpecKeys
MaxFetches == 2

\* clock steps in one behaviour; one step is TickMillis
MaxTicks == 4

\* handle() invocations in one behaviour of SpecRepeat
MaxRepeats == 9

\* distinct pages requested in one behaviour of SpecFill: enough to fill flex,
\* trim it, fill it again and trim it a second time
MaxPages == 161

\* repeated or overlapping requests in one behaviour of SpecFill
MaxExtras == 2

\* repeated requests in one behaviour of SpecEvict: one short of a promotion
\* before an eviction, and one after it
MaxTouches == 6

\* evaluations of `new CacheManager()` in one behaviour of SpecSingleton,
\* the one that built the exported instance included
MaxConstructions == 3

\* two callers, so that two handle() invocations can overlap
Callers == {1, 2}

\* the clock advances in steps of one base-refresh interval, so that "exactly
\* one interval" and "more than one interval" both occur for either timestamp
TickMillis == refreshInterval

----------------------------------------------------------------------------
(* Cache keys: `${endpoint}_${JSON.stringify(params)}`.  A params object   *)
(* is the sequence of its <<name, value>> members in insertion order (the  *)
(* order JSON.stringify walks for non-index property names); values are    *)
(* numbers.  A string is the sequence of its tokens.                       *)

RECURSIVE Members(_)
Members(params) ==
    IF params = <<>> THEN <<>>
    ELSE LET m == <<params[1][1], ":", ToString(params[1][2])>>
         IN  IF Len(params) = 1 THEN m ELSE m \o <<",">> \o Members(Tail(params))

JSONstringify(params) == <<"{">> \o Members(params) \o <<"}">>

CacheKey(endpoint, params) == <<endpoint, "_">> \o JSONstringify(params)

----------------------------------------------------------------------------
(* Map operations.  base and favorite are functions on their key sets;     *)
(* flex keeps the Map's insertion order.                                   *)

\* a set that leaves the value of an existing key alone (first write wins)
MapSetIfAbsent(m, k, v) == m @@ (k :> v)

MapSet(m, k, v) == (k :> v) @@ m

MapDelete(m, k) == [x \in DOMAIN m \ {k} |-> m[x]]

EmptyMap == << >>

FlexKeys(flex) == {flex[i].k : i \in 1 .. Len(flex)}

\* a flex tier whose entries expire with the refresh interval
FlexHasUnexpired(flex, k) == k \in FlexKeys(flex) /\ now <= refreshInterval

FlexHas(flex, k) == k \in FlexKeys(flex)

FlexIndex(flex, k) == CHOOSE i \in 1 .. Len(flex) : flex[i].k = k

\* what Map.prototype.get returns for an absent key
Undefined == 0

FlexGet(flex, k) == IF FlexHas(flex, k) THEN flex[FlexIndex(flex, k)].v ELSE Undefined

FlexDelete(flex, k) == SelectSeq(flex, LAMBDA e : e.k # k)

\* Map.prototype.set: an existing key keeps its position, a new key goes last
FlexSet(flex, k, v) ==
    IF FlexHas(flex, k)
    THEN [flex EXCEPT ![FlexIndex(flex, k)] = [k |-> k, v |-> v]]
    ELSE Append(flex, [k |-> k, v |-> v])

----------------------------------------------------------------------------
(* Methods of CacheManager.                                                *)

\* a refresh already due when exactly one interval has passed
needsBaseCacheRefreshInclusive == (now - lastBaseRefresh) >= refreshInterval

\* a refresh measured against the favorite tier's interval
needsBaseCacheRefreshDaily == (now - lastBaseRefresh) > favoriteResetInterval

needsBaseCacheRefresh == (now - lastBaseRefresh) > refreshInterval

\* a reset already due when exactly one interval has passed
needsFavoriteCacheResetInclusive == (now - lastFavoriteReset) >= favoriteResetInterval

\* a reset that comes due only after a week
needsFavoriteCacheResetWeekly == (now - lastFavoriteReset) > 7 * favoriteResetInterval

needsFavoriteCacheReset == (now - lastFavoriteReset) > favoriteResetInterval

\* entries.slice(0, flexLimit - flexClearAmount): the entries kept by a trim
keepEntries(entries) ==
    SubSeq(entries, 1, IF Len(entries) < flexLimit - flexClearAmount
                       THEN Len(entries) ELSE flexLimit - flexClearAmount)

\* a size test that lets one entry too many in
FlexFullOffByOne(flex) == Len(flex) > flexLimit

\* the size test that triggers a trim
FlexFull(flex) == Len(flex) >= flexLimit

\* a moveToTopOfFlex that tests the size before it deletes the key
moveToTopOfFlexTestFirst(flex, key, value) ==
    LET deleted == FlexDelete(flex, key)
        trimmed == IF FlexFull(flex) THEN keepEntries(deleted) ELSE deleted
    IN  FlexSet(trimmed, key, value)

\* a moveToTopOfFlex without the delete of line 57: the key keeps its place
moveToTopOfFlexInPlace(flex, key, value) ==
    LET trimmed == IF FlexFull(flex) THEN keepEntries(flex) ELSE flex
    IN  FlexSet(trimmed, key, value)

moveToTopOfFlex(flex, key, value) ==
    LET deleted == FlexDelete(flex, key)
        trimmed == IF FlexFull(deleted) THEN keepEntries(deleted) ELSE deleted
    IN  FlexSet(trimmed, key, value)

\* a promotion that deletes the key from flex before it reads the value
incrementAccessCountDeleteFirst(flex, counts, fav, key) ==
    LET currentCount == IF key \in DOMAIN counts THEN counts[key] ELSE 0
        newCount     == currentCount + 1
        counted      == MapSet(counts, key, newCount)
    IN  IF newCount >= favoriteThreshold
        THEN [flex   |-> FlexDelete(flex, key),
              counts |-> MapDelete(counted, key),
              fav    |-> MapSet(fav, key, FlexGet(FlexDelete(flex, key), key))]
        ELSE [flex |-> flex, counts |-> counted, fav |-> fav]

\* a promotion that waits for the count to pass the threshold
incrementAccessCountPastThreshold(flex, counts, fav, key) ==
    LET currentCount == IF key \in DOMAIN counts THEN counts[key] ELSE 0
        newCount     == currentCount + 1
        counted      == MapSet(counts, key, newCount)
    IN  IF newCount > favoriteThreshold
        THEN [flex   |-> FlexDelete(flex, key),
              counts |-> MapDelete(counted, key),
              fav    |-> MapSet(fav, key, FlexGet(flex, key))]
        ELSE [flex |-> flex, counts |-> counted, fav |-> fav]

\* a count that starts from one: (this.flexAccessCounts.get(key) || 1) + 1
incrementAccessCountFromOne(flex, counts, fav, key) ==
    LET currentCount == IF key \in DOMAIN counts THEN counts[key] ELSE 1
        newCount     == currentCount + 1
        counted      == MapSet(counts, key, newCount)
    IN  IF newCount >= favoriteThreshold
        THEN [flex   |-> FlexDelete(flex, key),
              counts |-> MapDelete(counted, key),
              fav    |-> MapSet(fav, key, FlexGet(flex, key))]
        ELSE [flex |-> flex, counts |-> counted, fav |-> fav]

\* the caches after incrementAccessCount(key), as [flex, counts, fav]
incrementAccessCount(flex, counts, fav, key) ==
    LET currentCount == IF key \in DOMAIN counts THEN counts[key] ELSE 0
        newCount     == currentCount + 1
        counted      == MapSet(counts, key, newCount)
    IN  IF newCount >= favoriteThreshold
        THEN [flex   |-> FlexDelete(flex, key),
              counts |-> MapDelete(counted, key),
              fav    |-> MapSet(fav, key, FlexGet(flex, key))]
        ELSE [flex |-> flex, counts |-> counted, fav |-> fav]

----------------------------------------------------------------------------
(* BaseCache: a Map from key to an entry with metadata.  store.cache is the *)
(* Map in insertion order, a sequence of entries                            *)
(* [k, value, createdAt, lastAccessed, accessCount]; store.out is what the  *)
(* last method call returned or threw; `new Date()` is the clock now.       *)

\* the keys and values the methods are called with
StoreKeys == {"a", "b"}

StoreValues == {1, 2}

\* get() calls answered for one entry in one behaviour
MaxGets == 2

\* clock ticks in one behaviour of SpecStore
MaxStoreTicks == 1

managerVars == <<cacheVars, now, calls, ret, fetchLog, instance>>

NoMetadata == <<>>

Outcome(kind, value, meta) == [kind |-> kind, value |-> value, meta |-> meta]

NoOutcome == Outcome("none", Undefined, NoMetadata)

Thrown == Outcome("error", Undefined, NoMetadata)

\* lines 2-8: the constructor
NewStore == [cache |-> <<>>, createdAt |-> 0, lastUpdated |-> 0, out |-> NoOutcome]

CacheKeys(cache) == {cache[i].k : i \in 1 .. Len(cache)}

CacheHas(cache, key) == key \in CacheKeys(cache)

CacheIndex(cache, key) == CHOOSE i \in 1 .. Len(cache) : cache[i].k = key

\* this.cache.delete(key) for every key in keys
CacheDeleteAll(cache, keys) == SelectSeq(cache, LAMBDA e : e.k \notin keys)

\* lines 11-26
create(key, value) ==
    /\ UNCHANGED <<managerVars>>
    /\ IF CacheHas(store.cache, key)
       THEN store' = [store EXCEPT !.out = Thrown]
       ELSE store' = [store EXCEPT
                !.cache = Append(@, [k |-> key, value |-> value, createdAt |-> now,
                                     lastAccessed |-> now, accessCount |-> 0]),
                !.lastUpdated = now,
                !.out = Outcome("true", Undefined, NoMetadata)]

\* lines 29-40
get(key) ==
    /\ UNCHANGED <<managerVars>>
    /\ IF ~CacheHas(store.cache, key)
       THEN store' = [store EXCEPT !.out = Outcome("null", Undefined, NoMetadata)]
       ELSE LET i == CacheIndex(store.cache, key)
            IN  /\ store.cache[i].accessCount < MaxGets
                /\ store' = [store EXCEPT
                       !.cache[i].lastAccessed = now,
                       !.cache[i].accessCount = @ + 1,
                       !.out = Outcome("value", store.cache[i].value, NoMetadata)]

\* an update that starts the entry's metadata afresh
updateResettingCount(key, value) ==
    /\ UNCHANGED <<managerVars>>
    /\ IF ~CacheHas(store.cache, key)
       THEN store' = [store EXCEPT !.out = Thrown]
       ELSE LET i == CacheIndex(store.cache, key)
                existingEntry == store.cache[i]
            IN  store' = [store EXCEPT
                    !.cache[i] = [existingEntry EXCEPT
                                     !.value = value,
                                     !.lastAccessed = now,
                                     !.accessCount = 0],
                    !.lastUpdated = now,
                    !.out = Outcome("true", Undefined, NoMetadata)]

\* lines 43-59
update(key, value) ==
    /\ UNCHANGED <<managerVars>>
    /\ IF ~CacheHas(store.cache, key)
       THEN store' = [store EXCEPT !.out = Thrown]
       ELSE LET i == CacheIndex(store.cache, key)
                existingEntry == store.cache[i]
            IN  store' = [store EXCEPT
                    !.cache[i] = [existingEntry EXCEPT
                                     !.value = value,
                                     !.lastAccessed = now,
                                     !.accessCount = existingEntry.accessCount],
                    !.lastUpdated = now,
                    !.out = Outcome("true", Undefined, NoMetadata)]

\* lines 62-72
delete(key) ==
    /\ UNCHANGED <<managerVars>>
    /\ IF ~CacheHas(store.cache, key)
       THEN store' = [store EXCEPT !.out = Outcome("false", Undefined, NoMetadata)]
       ELSE store' = [store EXCEPT
                !.cache = CacheDeleteAll(@, {key}),
                !.lastUpdated = now,
                !.out = Outcome("true", Undefined, NoMetadata)]

\* lines 75-79
clear ==
    /\ UNCHANGED <<managerVars>>
    /\ store' = [store EXCEPT !.cache = <<>>,
                              !.lastUpdated = now,
                              !.out = Outcome("true", Undefined, NoMetadata)]

\* Array.prototype.sort with (a, b) => a.createdAt - b.createdAt: a stable
\* sort, entries of equal creation time keep their order
RECURSIVE SortByCreatedAt(_)
SortByCreatedAt(entries) ==
    IF Len(entries) <= 1
    THEN entries
    ELSE LET sorted == SortByCreatedAt(SubSeq(entries, 1, Len(entries) - 1))
             last   == entries[Len(entries)]
             before == SelectSeq(sorted, LAMBDA e : e.createdAt <= last.createdAt)
             after  == SelectSeq(sorted, LAMBDA e : e.createdAt > last.createdAt)
         IN  before \o <<last>> \o after

\* Array.prototype.slice(begin, end): a negative index counts from the end,
\* every index is clamped to 0 .. length
RelativeIndex(entries, i) ==
    IF i < 0
    THEN (IF Len(entries) + i < 0 THEN 0 ELSE Len(entries) + i)
    ELSE (IF i > Len(entries) THEN Len(entries) ELSE i)

Slice(entries, begin, end) ==
    SubSeq(entries, RelativeIndex(entries, begin) + 1, RelativeIndex(entries, end))

MathAbs(n) == IF n < 0 THEN -n ELSE n

\* the default of the parameter end: null
NoEnd == <<>>

\* lines 82-126; end is NoEnd or <<n>>
massDelete(start, end) ==
    /\ UNCHANGED <<managerVars>>
    /\ LET entries == SortByCreatedAt(store.cache)
           deleted(slice) ==
               [store EXCEPT !.cache = CacheDeleteAll(@, CacheKeys(slice)),
                             !.lastUpdated = now,
                             !.out = Outcome("true", Undefined, NoMetadata)]
       IN  IF Len(entries) = 0
           THEN store' = [store EXCEPT !.out = Outcome("false", Undefined, NoMetadata)]
           ELSE IF end # NoEnd
           THEN IF start < 1 \/ end[1] > Len(entries) \/ start > end[1]
                THEN store' = [store EXCEPT !.out = Thrown]
                ELSE LET startIndex == start - 1
                         count      == end[1] - start + 1
                     IN  store' = deleted(Slice(entries, startIndex, startIndex + count))
           ELSE LET count == MathAbs(start)
                IN  IF count > Len(entries)
                    THEN store' = [store EXCEPT !.out = Thrown]
                    ELSE IF start > 0
                    THEN store' = deleted(Slice(entries, 0, count))
                    ELSE store' = deleted(Slice(entries, -count, Len(entries)))

\* lines 131-133
size ==
    /\ UNCHANGED <<managerVars>>
    /\ store' = [store EXCEPT !.out = Outcome("size", Len(store.cache), NoMetadata)]

\* lines 136-138
has(key) ==
    /\ UNCHANGED <<managerVars>>
    /\ store' = [store EXCEPT !.out =
           Outcome(IF CacheHas(store.cache, key) THEN "true" ELSE "false",
                   Undefined, NoMetadata)]

\* lines 141-152
getMetadata(key) ==
    /\ UNCHANGED <<managerVars>>
    /\ IF ~CacheHas(store.cache, key)
       THEN store' = [store EXCEPT !.out = Outcome("null", Undefined, NoMetadata)]
       ELSE LET entry == store.cache[CacheIndex(store.cache, key)]
            IN  store' = [store EXCEPT !.out =
                    Outcome("metadata", Undefined,
                            <<entry.createdAt, entry.lastAccessed, entry.accessCount>>)]

----------------------------------------------------------------------------
(* handle(endpoint, params, fetchFunction).                                *)

Idle == [pc |-> "idle", endpoint |-> "", key |-> <<>>, fetch |-> 0]

NoReturn == [key |-> <<>>, status |-> "none", value |-> Undefined, from |-> "none"]

NoRequest == <<>>

Init ==
    /\ baseCache = EmptyMap
    /\ lastBaseRefresh = 0
    /\ flexCache = <<>>
    /\ flexAccessCounts = EmptyMap
    /\ favoriteCache = EmptyMap
    /\ lastFavoriteReset = 0
    /\ now = 0
    /\ calls = [c \in Callers |-> Idle]
    /\ ret = NoReturn
    /\ fetchLog = <<>>
    /\ driver = [first |-> NoRequest, calls |-> 0, pages |-> 0, extras |-> 0,
                 fetchedAt |-> EmptyMap,
                 refreshed |-> 0,
                 gets |-> [k \in {} |-> 0]]
    /\ instance = [current |-> 1, returned |-> 1, news |-> 1]
    /\ store = NewStore

\* a handle() that invokes fetchFunction() again when the first invocation
\* rejects, and suspends on the second promise
AwaitWithRetry(c, endpoint, key) ==
    /\ fetchLog' = fetchLog \o <<[key |-> key, status |-> "failed"],
                                 [key |-> key, status |-> "pending"]>>
    /\ calls' = [calls EXCEPT ![c] = [pc |-> "await", endpoint |-> endpoint,
                                      key |-> key, fetch |-> Len(fetchLog) + 2]]
    /\ UNCHANGED ret

\* fetchFunction() is invoked and handle() suspends on its promise; the
\* payload of the n-th invocation is n
Await(c, endpoint, key) ==
    /\ fetchLog' = Append(fetchLog, [key |-> key, status |-> "pending"])
    /\ calls' = [calls EXCEPT ![c] = [pc |-> "await", endpoint |-> endpoint,
                                      key |-> key, fetch |-> Len(fetchLog) + 1]]
    /\ UNCHANGED ret

\* handle() returns value without suspending
Return(c, key, value, from) ==
    /\ ret' = [key |-> key, status |-> "value", value |-> value, from |-> from]
    /\ UNCHANGED <<calls, fetchLog>>

\* lines 86-121: from entry to a cache hit or to the await
Call(c, endpoint, params) ==
    /\ calls[c].pc = "idle"
    /\ UNCHANGED <<now, instance, store>>
    /\ IF endpoint \in blacklistedEndpoints
       THEN /\ Await(c, endpoint, CacheKey(endpoint, params))
            /\ UNCHANGED cacheVars
       ELSE LET key == CacheKey(endpoint, params)
                isPrimaryEndpoint == endpoint \in primaryEndpoints
                favorite == IF needsFavoriteCacheReset THEN EmptyMap ELSE favoriteCache
            IN  /\ lastFavoriteReset' =
                       IF needsFavoriteCacheReset THEN now ELSE lastFavoriteReset
                /\ IF isPrimaryEndpoint
                   THEN LET base == IF needsBaseCacheRefresh THEN EmptyMap ELSE baseCache
                        IN  /\ baseCache' = base
                            /\ lastBaseRefresh' =
                                   IF needsBaseCacheRefresh THEN now ELSE lastBaseRefresh
                            /\ favoriteCache' = favorite
                            /\ UNCHANGED <<flexCache, flexAccessCounts>>
                            /\ IF key \in DOMAIN base
                               THEN Return(c, key, base[key], "base")
                               ELSE Await(c, endpoint, key)
                   ELSE /\ UNCHANGED <<baseCache, lastBaseRefresh>>
                        /\ IF key \in DOMAIN favorite
                           THEN /\ favoriteCache' = favorite
                                /\ UNCHANGED <<flexCache, flexAccessCounts>>
                                /\ Return(c, key, favorite[key], "favorite")
                           ELSE IF FlexHas(flexCache, key)
                           THEN LET value == FlexGet(flexCache, key)
                                    inc   == incrementAccessCount(flexCache,
                                                 flexAccessCounts, favorite, key)
                                IN  /\ flexCache' = moveToTopOfFlex(inc.flex, key, value)
                                    /\ flexAccessCounts' = inc.counts
                                    /\ favoriteCache' = inc.fav
                                    /\ Return(c, key, value, "flex")
                           ELSE /\ favoriteCache' = favorite
                                /\ UNCHANGED <<flexCache, flexAccessCounts>>
                                /\ Await(c, endpoint, key)

\* a continuation that stores the outcome of the fetch whether it resolved or
\* rejected
SettleStoringFailure(c, ok) ==
    /\ calls[c].pc = "await"
    /\ UNCHANGED <<now, instance, store>>
    /\ LET endpoint == calls[c].endpoint
           key      == calls[c].key
           data     == calls[c].fetch
       IN  /\ fetchLog' = [fetchLog EXCEPT ![data].status = IF ok THEN "ok" ELSE "failed"]
           /\ calls' = [calls EXCEPT ![c] = Idle]
           /\ ret' = [key |-> key, status |-> IF ok THEN "value" ELSE "error",
                      value |-> data,
                      from |-> IF ok /\ endpoint \in blacklistedEndpoints
                               THEN "bypass" ELSE "fetch"]
           /\ IF endpoint \in blacklistedEndpoints
              THEN UNCHANGED cacheVars
              ELSE IF endpoint \in primaryEndpoints
              THEN /\ baseCache' = MapSet(baseCache, key, data)
                   /\ UNCHANGED <<lastBaseRefresh, flexCache, flexAccessCounts,
                                  favoriteCache, lastFavoriteReset>>
              ELSE LET moved == moveToTopOfFlex(flexCache, key, data)
                       inc   == incrementAccessCount(moved, flexAccessCounts,
                                                     favoriteCache, key)
                   IN  /\ flexCache' = inc.flex
                       /\ flexAccessCounts' = inc.counts
                       /\ favoriteCache' = inc.fav
                       /\ UNCHANGED <<baseCache, lastBaseRefresh, lastFavoriteReset>>

\* lines 88 and 124-137: fetchFunction() settles and handle() resumes
Settle(c, ok) ==
    /\ calls[c].pc = "await"
    /\ UNCHANGED <<now, instance, store>>
    /\ LET endpoint == calls[c].endpoint
           key      == calls[c].key
           data     == calls[c].fetch
       IN  /\ fetchLog' = [fetchLog EXCEPT ![data].status = IF ok THEN "ok" ELSE "failed"]
           /\ calls' = [calls EXCEPT ![c] = Idle]
           /\ IF ~ok
              THEN /\ ret' = [key |-> key, status |-> "error", value |-> data,
                              from |-> "fetch"]
                   /\ UNCHANGED cacheVars
              ELSE IF endpoint \in blacklistedEndpoints
              THEN /\ ret' = [key |-> key, status |-> "value", value |-> data,
                              from |-> "bypass"]
                   /\ UNCHANGED cacheVars
              ELSE /\ ret' = [key |-> key, status |-> "value", value |-> data,
                              from |-> "fetch"]
                   /\ IF endpoint \in primaryEndpoints
                      THEN /\ baseCache' = MapSet(baseCache, key, data)
                           /\ UNCHANGED <<lastBaseRefresh, flexCache, flexAccessCounts,
                                          favoriteCache, lastFavoriteReset>>
                      ELSE LET moved == moveToTopOfFlex(flexCache, key, data)
                               inc   == incrementAccessCount(moved, flexAccessCounts,
                                                             favoriteCache, key)
                           IN  /\ flexCache' = inc.flex
                               /\ flexAccessCounts' = inc.counts
                               /\ favoriteCache' = inc.fav
                               /\ UNCHANGED <<baseCache, lastBaseRefresh,
                                              lastFavoriteReset>>

\* wall-clock time passes
Tick ==
    /\ now + TickMillis <= MaxTicks * TickMillis
    /\ now' = now + TickMillis
    /\ UNCHANGED <<cacheVars, calls, ret, fetchLog, driver, instance, store>>

\* CacheManager.instance before the first construction
NoInstance == 0

\* a constructor that never finds an instance
HasInstanceNever == FALSE

\* line 4: if (CacheManager.instance)
HasInstance == instance.current # NoInstance

\* lines 3-43: `new CacheManager()` evaluated once more.  The cache variables
\* are the fields of the object CacheManager.instance refers to; instance.news
\* counts the evaluations and names the object a constructor run would build.
Construct ==
    /\ instance.news < MaxConstructions
    /\ UNCHANGED <<now, calls, ret, fetchLog, driver, store>>
    /\ IF HasInstance
       THEN /\ instance' = [instance EXCEPT !.returned = instance.current,
                                            !.news = @ + 1]
            /\ UNCHANGED cacheVars
       ELSE /\ baseCache' = EmptyMap
            /\ lastBaseRefresh' = now
            /\ flexCache' = <<>>
            /\ flexAccessCounts' = EmptyMap
            /\ favoriteCache' = EmptyMap
            /\ lastFavoriteReset' = now
            /\ instance' = [current  |-> instance.news + 1,
                            returned |-> instance.news + 1,
                            news     |-> instance.news + 1]

----------------------------------------------------------------------------
(* Spec: one request of each endpoint class, from callers whose invocations *)
(* may overlap, while time passes.                                          *)

DefaultEndpoint == "/search/movie"

PrimaryEndpoint == "/movie/popular"

BlacklistedEndpoint == "/health"

Endpoints == {DefaultEndpoint, PrimaryEndpoint, BlacklistedEndpoint}

NoParams == <<>>

AllIdle == \A c \in Callers : calls[c].pc = "idle"

\* a continuation that runs only once no other call is suspended
SettledWhenAlone(c, ok) ==
    /\ \A d \in Callers \ {c} : calls[d].pc = "idle"
    /\ Settle(c, ok)
    /\ driver' = IF /\ ok
                    /\ calls[c].endpoint \in primaryEndpoints
                    /\ calls[c].key \notin DOMAIN driver.fetchedAt
                 THEN [driver EXCEPT !.fetchedAt = MapSet(@, calls[c].key, now)]
                 ELSE driver

\* the caller receives the outcome of its fetch; driver.fetchedAt keeps the
\* time at which each key of a primary endpoint was first fetched
Settled(c, ok) ==
    /\ Settle(c, ok)
    /\ driver' = IF /\ ok
                    /\ calls[c].endpoint \in primaryEndpoints
                    /\ calls[c].key \notin DOMAIN driver.fetchedAt
                 THEN [driver EXCEPT !.fetchedAt = MapSet(@, calls[c].key, now)]
                 ELSE driver

AnyCall(c, endpoint, params) ==
    /\ Call(c, endpoint, params)
    /\ Len(fetchLog') <= MaxFetches
    /\ UNCHANGED driver

Next ==
    \/ \E c \in Callers, e \in Endpoints : AnyCall(c, e, NoParams)
    \/ \E c \in Callers, ok \in BOOLEAN : Settled(c, ok)
    \/ Tick

Spec == Init /\ [][Next]_vars

\* Spec with every promise returned by fetchFunction() settling: the
\* continuation of a suspended handle() is run once its promise has resolved
\* or rejected
SpecLive ==
    /\ Init
    /\ [][Next]_vars
    /\ \A c \in Callers : WF_vars(\E ok \in BOOLEAN : Settled(c, ok))

----------------------------------------------------------------------------
(* SpecRepeat: one request on a default endpoint, repeated sequentially    *)
(* while time passes.  driver.first is the request, driver.calls the number *)
(* of times it has been issued.                                             *)

PageParams == {NoParams, <<<<"page", 1>>>>, <<<<"page", 2>>>>}

RepeatCall(c, params) ==
    /\ AllIdle
    /\ driver.calls < MaxRepeats
    /\ driver.first \in {NoRequest, <<DefaultEndpoint, params>>}
    /\ Call(c, DefaultEndpoint, params)
    /\ driver' = [driver EXCEPT !.first = <<DefaultEndpoint, params>>,
                                !.calls = @ + 1]

NextRepeat ==
    \/ \E c \in Callers, p \in PageParams : RepeatCall(c, p)
    \/ \E c \in Callers, ok \in BOOLEAN : Settled(c, ok)
    \/ Tick

SpecRepeat == Init /\ [][NextRepeat]_vars

\* the key of the repeated request
RepeatedKey == CacheKey(driver.first[1], driver.first[2])

----------------------------------------------------------------------------
(* SpecFill: requests for page 1, 2, 3, ... of a default endpoint, each    *)
(* page a distinct key and every fetch succeeding.  While flex is at or     *)
(* next to its limit a few extra requests arrive: repeated requests for the *)
(* first page and for the page that filled flex, and requests that overlap  *)
(* one still in flight.  driver.pages is the highest page requested,        *)
(* driver.extras the number of extra requests.                              *)

Page(n) == <<<<"page", n>>>>

RepeatablePages == {1, flexLimit}

NearLimit == Len(flexCache) >= flexLimit - 1

FreshCall(c) ==
    /\ AllIdle
    /\ driver.pages < MaxPages
    /\ Call(c, DefaultEndpoint, Page(driver.pages + 1))
    /\ driver' = [driver EXCEPT !.pages = @ + 1, !.calls = @ + 1]

TouchCall(c, n) ==
    /\ NearLimit
    /\ n <= driver.pages
    /\ driver.extras < MaxExtras
    /\ Call(c, DefaultEndpoint, Page(n))
    /\ driver' = [driver EXCEPT !.calls = @ + 1, !.extras = @ + 1]

OverlapCall(c) ==
    /\ NearLimit
    /\ ~AllIdle
    /\ driver.pages < MaxPages
    /\ driver.extras < MaxExtras
    /\ Call(c, DefaultEndpoint, Page(driver.pages + 1))
    /\ driver' = [driver EXCEPT !.pages = @ + 1, !.calls = @ + 1, !.extras = @ + 1]

Fetched(c) == Settled(c, TRUE)

NextFill ==
    \/ \E c \in Callers : FreshCall(c)
    \/ \E c \in Callers, n \in RepeatablePages : TouchCall(c, n)
    \/ \E c \in Callers : OverlapCall(c)
    \/ \E c \in Callers : Fetched(c)

SpecFill == Init /\ [][NextFill]_vars

----------------------------------------------------------------------------
(* SpecKeys: sequential requests on a default endpoint whose params objects *)
(* hold the same members in either insertion order.                         *)

OrderedParams ==
    {NoParams, <<<<"page", 1>>>>, <<<<"year", 1>>>>,
     <<<<"page", 1>>, <<"year", 1>>>>, <<<<"year", 1>>, <<"page", 1>>>>,
     <<<<"page", 2>>, <<"year", 1>>>>}

KeysCall(c, params) ==
    /\ AllIdle
    /\ Call(c, DefaultEndpoint, params)
    /\ Len(fetchLog') <= MaxFetches
    /\ UNCHANGED driver

NextKeys ==
    \/ \E c \in Callers, p \in OrderedParams : KeysCall(c, p)
    \/ \E c \in Callers, ok \in BOOLEAN : Settled(c, ok)

SpecKeys == Init /\ [][NextKeys]_vars

----------------------------------------------------------------------------
(* SpecSingleton: sequential requests of each endpoint class while time     *)
(* passes, with further evaluations of `new CacheManager()` in between.     *)

SingleCall(c, endpoint) ==
    /\ AllIdle
    /\ Call(c, endpoint, NoParams)
    /\ Len(fetchLog') <= MaxFetches
    /\ UNCHANGED driver

NextSingleton ==
    \/ \E c \in Callers, e \in Endpoints : SingleCall(c, e)
    \/ \E c \in Callers, ok \in BOOLEAN : Settled(c, ok)
    \/ Tick
    \/ Construct

SpecSingleton == Init /\ [][NextSingleton]_vars

----------------------------------------------------------------------------
(* SpecShield: calls that never overlap, made while neither interval         *)
(* elapses: requests for page 1, 2, 3, ... up to page flexLimit of a        *)
(* default endpoint; at the start, while up to one base-refresh interval    *)
(* passes, requests for a primary endpoint and repeated requests for the    *)
(* first page, whose fetches may reject; and once every page has been       *)
(* requested, repeated requests for the first and for the last page.        *)
(* driver.pages is the number of distinct default keys requested,           *)
(* driver.extras the number of the other requests.                          *)

\* requests are repeated before the second key is requested and after the
\* last one was
ShieldMoment == driver.pages <= 1 \/ driver.pages >= flexLimit

\* the repeated requests allowed so far: a few at the start, enough for a
\* promotion at the end
ShieldBudget == IF driver.pages >= flexLimit THEN MaxRepeats ELSE MaxExtras

ShieldFresh(c) ==
    /\ AllIdle
    /\ driver.pages < flexLimit
    /\ Call(c, DefaultEndpoint, Page(driver.pages + 1))
    /\ driver' = [driver EXCEPT !.pages = @ + 1, !.calls = @ + 1]

ShieldRepeat(c, n) ==
    /\ AllIdle
    /\ ShieldMoment
    /\ n <= driver.pages
    /\ driver.extras < ShieldBudget
    /\ Call(c, DefaultEndpoint, Page(n))
    /\ driver' = [driver EXCEPT !.calls = @ + 1, !.extras = @ + 1]

ShieldPrimary(c) ==
    /\ AllIdle
    /\ driver.pages <= 1
    /\ driver.extras < ShieldBudget
    /\ Call(c, PrimaryEndpoint, NoParams)
    /\ driver' = [driver EXCEPT !.calls = @ + 1, !.extras = @ + 1]

ShieldSettled(c, ok) ==
    /\ ok \/ driver.pages <= 1
    /\ Settled(c, ok)

\* time passes, but no more than one base-refresh interval since construction
ShieldTick ==
    /\ driver.pages <= 1
    /\ now + TickMillis <= refreshInterval
    /\ Tick

NextShield ==
    \/ \E c \in Callers : ShieldFresh(c)
    \/ \E c \in Callers, n \in RepeatablePages : ShieldRepeat(c, n)
    \/ \E c \in Callers : ShieldPrimary(c)
    \/ \E c \in Callers, ok \in BOOLEAN : ShieldSettled(c, ok)
    \/ ShieldTick

SpecShield == Init /\ [][NextShield]_vars

----------------------------------------------------------------------------
(* SpecEvict: calls that never overlap, every fetch succeeding: requests    *)
(* for page 1, 2, 3, ... of a default endpoint and, while flex is at or     *)
(* next to its limit, up to MaxTouches repeated requests for the first page *)
(* and for the page that filled flex.  driver.extras is the number of       *)
(* repeated requests.                                                       *)

EvictTouch(c, n) ==
    /\ AllIdle
    /\ NearLimit
    /\ n <= driver.pages
    /\ driver.extras < MaxTouches
    /\ Call(c, DefaultEndpoint, Page(n))
    /\ driver' = [driver EXCEPT !.calls = @ + 1, !.extras = @ + 1]

NextEvict ==
    \/ \E c \in Callers : FreshCall(c)
    \/ \E c \in Callers, n \in RepeatablePages : EvictTouch(c, n)
    \/ \E c \in Callers : Fetched(c)

SpecEvict == Init /\ [][NextEvict]_vars

----------------------------------------------------------------------------
(* SpecRefresh: overlapping requests on a primary endpoint while time       *)
(* passes.  driver.refreshed is the number of fetchFunction invocations     *)
(* made before the last refresh of base: the fetches that were started      *)
(* before it are those numbered up to driver.refreshed.                     *)

RefreshCall(c, params) ==
    /\ Call(c, PrimaryEndpoint, params)
    /\ Len(fetchLog') <= MaxFetches
    /\ driver' = IF needsBaseCacheRefresh
                 THEN [driver EXCEPT !.refreshed = Len(fetchLog)]
                 ELSE driver

NextRefresh ==
    \/ \E c \in Callers, params \in PageParams : RefreshCall(c, params)
    \/ \E c \in Callers, ok \in BOOLEAN : Settled(c, ok)
    \/ Tick

SpecRefresh == Init /\ [][NextRefresh]_vars

----------------------------------------------------------------------------
(* SpecStore: the methods of one BaseCache called in any order while the    *)
(* clock advances.  driver.gets counts, for every entry in the store, the   *)
(* get() calls that found it since it was created.                          *)

StartArgs == -(Cardinality(StoreKeys) + 1) .. Cardinality(StoreKeys) + 1

RangeArgs == 0 .. Cardinality(StoreKeys) + 1

\* got: the keys a get() of this step found
Counted(got) ==
    driver' = [driver EXCEPT !.gets =
        [k \in CacheKeys(store'.cache) |->
            IF k \in CacheKeys(store.cache)
            THEN driver.gets[k] + (IF k \in got THEN 1 ELSE 0)
            ELSE 0]]

StoreTick ==
    /\ now < MaxStoreTicks * TickMillis
    /\ Tick

NextStore ==
    \/ \E key \in StoreKeys, value \in StoreValues : create(key, value) /\ Counted({})
    \/ \E key \in StoreKeys : get(key) /\ Counted({key} \cap CacheKeys(store.cache))
    \/ \E key \in StoreKeys, value \in StoreValues : update(key, value) /\ Counted({})
    \/ \E key \in StoreKeys : delete(key) /\ Counted({})
    \/ clear /\ Counted({})
    \/ \E start \in StartArgs : massDelete(start, NoEnd) /\ Counted({})
    \/ \E start \in RangeArgs, end \in RangeArgs : massDelete(start, <<end>>) /\ Counted({})
    \/ size /\ Counted({})
    \/ \E key \in StoreKeys : has(key) /\ Counted({})
    \/ \E key \in StoreKeys : getMetadata(key) /\ Counted({})
    \/ StoreTick

SpecStore == Init /\ [][NextStore]_vars

----------------------------------------------------------------------------
(* Properties.                                                             *)

Cached(key) == FlexHas(flexCache, key) \/ key \in DOMAIN favoriteCache

NoFetchFailed == \A i \in 1 .. Len(fetchLog) : fetchLog[i].status # "failed"

\* no favorite reset has come due since construction
NoResetElapsed == lastFavoriteReset = 0 /\ now <= favoriteResetInterval

\* a fetchFunction() invocation was made by this step, for key, by caller c
Fetches(c, key) ==
    /\ Len(fetchLog') = Len(fetchLog) + 1
    /\ fetchLog'[Len(fetchLog')].key = key
    /\ calls'[c].pc = "await"
    /\ calls'[c].fetch = Len(fetchLog')

\* C1: in every reachable state no cache key is in both the flex tier and
\* the favorite tier.
C1_FlexFavoriteDisjoint == FlexKeys(flexCache) \cap DOMAIN favoriteCache = {}

\* C2: one request on a default endpoint repeated sequentially from the empty
\* cache, every fetch succeeding and no favorite reset coming due: the key is
\* in favorite exactly from the 7th completed call on, from then on it is not
\* in flex, and the 8th and later calls are answered from favorite with the
\* single fetch of the first call the only one made.
C2_Promotion ==
    (driver.first # NoRequest /\ AllIdle /\ NoFetchFailed /\ NoResetElapsed) =>
        /\ (RepeatedKey \in DOMAIN favoriteCache) <=> (driver.calls >= favoriteThreshold)
        /\ (driver.calls >= favoriteThreshold) => ~FlexHas(flexCache, RepeatedKey)
        /\ (driver.calls > favoriteThreshold) =>
               (ret.from = "favorite" /\ Len(fetchLog) = 1)

\* C3: when the repeated key has been promoted to favorite and more than the
\* favorite-reset interval has passed, the next identical call finds the key
\* gone from favorite and is a full miss: it invokes fetchFunction once, and
\* when that fetch succeeds the key is in flex and not in favorite.
C3_FavoriteReset ==
    [][\A c \in Callers :
        /\ \A p \in PageParams :
               (/\ driver.first # NoRequest
                /\ RepeatedKey \in DOMAIN favoriteCache
                /\ needsFavoriteCacheReset
                /\ RepeatCall(c, p))
               => (/\ RepeatedKey \notin DOMAIN favoriteCache'
                   /\ Fetches(c, RepeatedKey))
        /\ (driver.first # NoRequest /\ Settle(c, TRUE))
               => (/\ FlexHas(flexCache', RepeatedKey)
                   /\ RepeatedKey \notin DOMAIN favoriteCache')
      ]_vars

\* the keys a step removes from flex
Removed == FlexKeys(flexCache) \ FlexKeys(flexCache')

\* C4: when a step removes a batch of entries from flex, every entry that
\* stays was inserted or last touched later than every entry removed (it
\* stood behind it in flex's insertion order).
C4_EvictsOldest ==
    [][Cardinality(Removed) > 1 =>
          \A i, j \in 1 .. Len(flexCache) :
              (flexCache[i].k \in Removed /\ flexCache[j].k \notin Removed) => i < j
      ]_vars

\* C5: in every reachable state flex holds at most flexLimit (100) entries.
C5_FlexBounded == Len(flexCache) <= flexLimit

\* flex is full again after a trim
C5_Witness == Len(flexCache) = flexLimit /\ driver.pages > flexLimit

\* C6: in every reachable state a key has an access count only if it is in
\* flex.
C6_CountsOnlyInFlex == DOMAIN flexAccessCounts \subseteq FlexKeys(flexCache)

\* the two params objects hold the same name/value members
SameMembers(p, q) ==
    {p[i] : i \in 1 .. Len(p)} = {q[i] : i \in 1 .. Len(q)}

\* C7: on one endpoint two params objects that hold the same members in a
\* different order derive one cache key, so a call whose members were cached
\* in the other order is answered from the cache without invoking
\* fetchFunction; two params objects that differ in a member derive
\* different keys.
C7_KeyNormalization ==
    [][\A p, q \in OrderedParams :
        /\ ~SameMembers(p, q) =>
               (CacheKey(DefaultEndpoint, p) # CacheKey(DefaultEndpoint, q))
        /\ \A c \in Callers :
               (/\ SameMembers(p, q)
                /\ Cached(CacheKey(DefaultEndpoint, p))
                /\ KeysCall(c, q))
               => (fetchLog' = fetchLog /\ ret'.status = "value")
      ]_vars

\* the endpoints the blacklist is to hold
NeverCached == {"/configuration", "/validate", "/health"}

\* C8: a call on a blacklisted endpoint invokes fetchFunction once and ends
\* with that invocation's result or error; neither its start nor its end
\* changes a tier, an access count or an expiry timestamp.
C8_BlacklistBypass ==
    [][\A c \in Callers, e \in NeverCached \cap Endpoints :
        /\ NeverCached \subseteq blacklistedEndpoints
        /\ Call(c, e, NoParams)
               => (/\ UNCHANGED cacheVars
                   /\ Fetches(c, CacheKey(e, NoParams))
                   /\ ret' = ret)
        /\ \A ok \in BOOLEAN :
               (calls[c].endpoint = e /\ Settle(c, ok))
               => (/\ UNCHANGED cacheVars
                   /\ Len(fetchLog') = Len(fetchLog)
                   /\ ret' = [key    |-> calls[c].key,
                              status |-> IF ok THEN "value" ELSE "error",
                              value  |-> calls[c].fetch,
                              from   |-> IF ok THEN "bypass" ELSE "fetch"])
      ]_vars

\* two identical blacklisted calls have each invoked fetchFunction and
\* returned, with a favorite reset overdue and left alone
C8_Witness ==
    /\ ret.from = "bypass"
    /\ Len(fetchLog) = 2
    /\ fetchLog[1].key = fetchLog[2].key
    /\ fetchLog[1].status = "ok" /\ fetchLog[2].status = "ok"
    /\ needsFavoriteCacheReset
    /\ needsBaseCacheRefresh

\* C9: on a primary endpoint a miss invokes fetchFunction once and its result
\* is stored in base under the key; a call made while the key is in base and
\* no more than the refresh interval has passed since the last base refresh
\* returns the stored value and invokes nothing.
C9_PrimaryHit ==
    [][\A c \in Callers, e \in primaryEndpoints \cap Endpoints :
        LET key == CacheKey(e, NoParams)
        IN  /\ (Call(c, e, NoParams) /\ key \notin DOMAIN baseCache)
                   => Fetches(c, key)
            /\ (calls[c].endpoint = e /\ Settle(c, TRUE))
                   => (/\ baseCache' = MapSet(baseCache, calls[c].key, calls[c].fetch)
                       /\ ret'.status = "value"
                       /\ ret'.value = calls[c].fetch)
            /\ (/\ Call(c, e, NoParams)
                /\ key \in DOMAIN baseCache
                /\ (now - lastBaseRefresh) <= refreshInterval)
                   => (/\ ret' = [key |-> key, status |-> "value",
                                  value |-> baseCache[key], from |-> "base"]
                       /\ fetchLog' = fetchLog
                       /\ calls' = calls
                       /\ baseCache' = baseCache)
      ]_vars

\* a primary call was answered from base exactly one interval after the
\* last refresh, the first fetch still the only one
C9_Witness ==
    /\ ret.from = "base"
    /\ ret.value = 1
    /\ Len(fetchLog) = 1
    /\ now - lastBaseRefresh = refreshInterval

\* C10 as claimed: a primary call that arrives more than one refresh interval
\* after the last base refresh clears base, sets the timestamp to now and
\* invokes fetchFunction; and a primary call that arrives more than one
\* interval after its key was first fetched always invokes fetchFunction.
C10_RefreshSinceFirstFetch ==
    [][\A c \in Callers, e \in primaryEndpoints \cap Endpoints :
        LET key == CacheKey(e, NoParams)
        IN  /\ (Call(c, e, NoParams) /\ (now - lastBaseRefresh) > refreshInterval)
                   => (/\ lastBaseRefresh' = now
                       /\ baseCache' = EmptyMap
                       /\ Fetches(c, key))
            /\ (/\ Call(c, e, NoParams)
                /\ key \in DOMAIN driver.fetchedAt
                /\ (now - driver.fetchedAt[key]) > refreshInterval)
                   => Fetches(c, key)
      ]_vars

\* C10 as amended: a primary call that arrives more than one refresh interval
\* after the last base refresh clears base, sets the timestamp to now and
\* invokes fetchFunction, whether or not its key had been cached.
C10_PrimaryRefresh ==
    [][\A c \in Callers, e \in primaryEndpoints \cap Endpoints :
        LET key == CacheKey(e, NoParams)
        IN  (Call(c, e, NoParams) /\ (now - lastBaseRefresh) > refreshInterval)
                => (/\ lastBaseRefresh' = now
                    /\ baseCache' = EmptyMap
                    /\ Fetches(c, key))
      ]_vars

\* a key that had been fetched and cached is being fetched again by the call
\* that refreshed base
C10_Witness ==
    /\ Len(fetchLog) = 2
    /\ fetchLog[1].key = fetchLog[2].key
    /\ fetchLog[1].key[1] \in primaryEndpoints
    /\ fetchLog[1].status = "ok"
    /\ fetchLog[2].status = "pending"
    /\ lastBaseRefresh = now
    /\ lastBaseRefresh > refreshInterval
    /\ baseCache = EmptyMap

\* the favorite tier as a call that arrives now finds it at lookup
FavoriteAtLookup == IF needsFavoriteCacheReset THEN EmptyMap ELSE favoriteCache

\* C11: on a default endpoint a call whose key is in no tier and has no
\* access count invokes fetchFunction once; when that fetch succeeds the
\* value is stored in flex and the key's access count is 1; the identical
\* call made next returns the value held in flex, invokes nothing and leaves
\* the access count at 2.
C11_FlexMissThenHit ==
    [][\A c \in Callers :
        LET key == CacheKey(DefaultEndpoint, NoParams)
        IN  /\ (/\ Call(c, DefaultEndpoint, NoParams)
                /\ ~Cached(key)
                /\ key \notin DOMAIN flexAccessCounts)
                   => Fetches(c, key)
            /\ (/\ calls[c].endpoint = DefaultEndpoint
                /\ Settle(c, TRUE)
                /\ ~Cached(key)
                /\ key \notin DOMAIN flexAccessCounts)
                   => (/\ FlexGet(flexCache', key) = calls[c].fetch
                       /\ FlexHas(flexCache', key)
                       /\ flexAccessCounts'[key] = 1
                       /\ ret'.status = "value"
                       /\ ret'.value = calls[c].fetch)
            /\ (/\ Call(c, DefaultEndpoint, NoParams)
                /\ FlexHas(flexCache, key)
                /\ key \notin DOMAIN FavoriteAtLookup
                /\ key \in DOMAIN flexAccessCounts
                /\ flexAccessCounts[key] = 1)
                   => (/\ ret' = [key |-> key, status |-> "value",
                                  value |-> FlexGet(flexCache, key), from |-> "flex"]
                       /\ fetchLog' = fetchLog
                       /\ calls' = calls
                       /\ FlexGet(flexCache', key) = FlexGet(flexCache, key)
                       /\ flexAccessCounts'[key] = 2)
      ]_vars

\* the miss was fetched once and the repeated call was answered from flex,
\* the key's count now 2
C11_Witness ==
    LET key == CacheKey(DefaultEndpoint, NoParams)
    IN  /\ Len(fetchLog) = 1
        /\ fetchLog[1].key = key
        /\ fetchLog[1].status = "ok"
        /\ ret.from = "flex"
        /\ ret.value = 1
        /\ key \in DOMAIN flexAccessCounts
        /\ flexAccessCounts[key] = 2
        /\ FlexGet(flexCache, key) = 1

\* the endpoints of Spec whose responses are cached
CachedEndpoints == Endpoints \ blacklistedEndpoints

\* fetchFunction() has been invoked for key and every invocation so far has
\* rejected
OnlyFailed(key) ==
    /\ \E i \in 1 .. Len(fetchLog) : fetchLog[i].key = key
    /\ \A i \in 1 .. Len(fetchLog) :
           fetchLog[i].key = key => fetchLog[i].status = "failed"

\* C12: when fetchFunction rejects during a miss on a primary or default
\* endpoint, handle() rejects with that error and the failing call changes no
\* tier, no access count and no timestamp; a later identical call, the key's
\* fetches having all rejected, is a miss again and invokes fetchFunction.
C12_ErrorNotCached ==
    [][\A c \in Callers, e \in CachedEndpoints :
        LET key == CacheKey(e, NoParams)
        IN  /\ (calls[c].endpoint = e /\ Settle(c, FALSE))
                   => (/\ UNCHANGED cacheVars
                       /\ Len(fetchLog') = Len(fetchLog)
                       /\ ret' = [key |-> key, status |-> "error",
                                  value |-> calls[c].fetch, from |-> "fetch"])
            /\ (Call(c, e, NoParams) /\ OnlyFailed(key))
                   => Fetches(c, key)
      ]_vars

\* a fetch for a cached endpoint rejected, no tier holds anything, and the
\* identical call made afterwards is fetching again
C12_Witness ==
    /\ Len(fetchLog) = 2
    /\ fetchLog[1].key = fetchLog[2].key
    /\ fetchLog[1].key[1] \in CachedEndpoints
    /\ fetchLog[1].status = "failed"
    /\ fetchLog[2].status = "pending"
    /\ ret.status = "error"
    /\ baseCache = EmptyMap /\ flexCache = <<>> /\ favoriteCache = EmptyMap
    /\ flexAccessCounts = EmptyMap

\* C13: a default-endpoint call that missed favorite and flex and whose
\* fetch succeeds writes its result to flex only: right after it the key is
\* in flex and not in favorite.
C13_WrittenOnlyToFlex ==
    [][\A c \in Callers :
        (/\ calls[c].endpoint \notin primaryEndpoints \cup blacklistedEndpoints
         /\ Settle(c, TRUE))
        => (/\ FlexHas(flexCache', calls[c].key)
            /\ calls[c].key \notin DOMAIN favoriteCache')
      ]_vars

\* C14: a default-endpoint call whose key is in favorite, no favorite reset
\* being due, returns the value stored in favorite and invokes nothing;
\* favorite, flex (its order included), base, the access counts and both
\* timestamps are unchanged by it.
C14_FavoriteHit ==
    [][\A c \in Callers :
        LET key == CacheKey(DefaultEndpoint, NoParams)
        IN  (/\ Call(c, DefaultEndpoint, NoParams)
             /\ key \in DOMAIN favoriteCache
             /\ (now - lastFavoriteReset) <= favoriteResetInterval)
            => (/\ ret' = [key |-> key, status |-> "value",
                           value |-> favoriteCache[key], from |-> "favorite"]
                /\ fetchLog' = fetchLog
                /\ calls' = calls
                /\ UNCHANGED cacheVars)
      ]_vars

\* a call was answered from favorite exactly one reset interval after
\* construction, the first fetch still the only one
C14_Witness ==
    /\ ret.from = "favorite"
    /\ ret.key \in DOMAIN favoriteCache
    /\ ret.value = favoriteCache[ret.key]
    /\ Len(fetchLog) = 1
    /\ lastFavoriteReset = 0
    /\ now = favoriteResetInterval

\* the value a lookup of key finds in the tiers of its endpoint class
\* (lines 105-106 and 110-116), Undefined when no tier holds it
Lookup(base, fav, flex, key) ==
    IF key[1] \in primaryEndpoints
    THEN IF key \in DOMAIN base THEN base[key] ELSE Undefined
    ELSE IF key \in DOMAIN fav THEN fav[key] ELSE FlexGet(flex, key)

\* C15: handle() is not single-flight.  Two calls for one uncached key can
\* both miss and both invoke fetchFunction (the state C15_Witness), and the
\* value found for the key once a fetch has completed is the result of that
\* fetch, whatever a fetch that completed earlier had stored: the last
\* completion wins.
C15_LastWriteWins ==
    [][\A c \in Callers :
        (/\ calls[c].endpoint \in CachedEndpoints
         /\ calls[c].key \notin DOMAIN favoriteCache
         /\ Settle(c, TRUE))
        => Lookup(baseCache', favoriteCache', flexCache', calls[c].key) = calls[c].fetch
      ]_vars

\* two fetches were made for one key at one instant, so the second call
\* missed before the first stored; both have resolved, the one invoked first
\* resolving last, and the tiers hold its result
C15_Witness ==
    /\ Len(fetchLog) = 2
    /\ fetchLog[1].key = fetchLog[2].key
    /\ fetchLog[1].key[1] \in CachedEndpoints
    /\ fetchLog[1].status = "ok" /\ fetchLog[2].status = "ok"
    /\ now = 0
    /\ ret.from = "fetch"
    /\ ret.value = 1
    /\ Lookup(baseCache, favoriteCache, flexCache, fetchLog[1].key) = 1

\* C16: handle() rejects exactly when its own fetchFunction() invocation
\* rejected, and with that invocation's error: a rejected fetch is never
\* answered with a value, a step that is not a rejected fetch never ends a
\* call in an error, and a call invokes fetchFunction at most once.
C16_OnlyFetchFails ==
    [][/\ \A c \in Callers :
            /\ Settle(c, FALSE)
                   => ret' = [key |-> calls[c].key, status |-> "error",
                              value |-> calls[c].fetch, from |-> "fetch"]
            /\ Settle(c, TRUE)
                   => (ret'.status = "value" /\ ret'.value = calls[c].fetch)
            /\ \A e \in Endpoints :
                   Call(c, e, NoParams)
                   => (/\ Len(fetchLog') <= Len(fetchLog) + 1
                       /\ \/ ret' = ret /\ Fetches(c, CacheKey(e, NoParams))
                          \/ ret'.status = "value" /\ fetchLog' = fetchLog)
       /\ (ret' # ret /\ ret'.status = "error")
              => \E c \in Callers : Settle(c, FALSE)
       /\ Len(fetchLog') > Len(fetchLog)
              => \E c \in Callers : calls[c].pc = "idle" /\ calls'[c].pc = "await"
       /\ \A c \in Callers :
              (calls[c].pc = "await" /\ calls'[c].pc = "await")
              => calls'[c].fetch = calls[c].fetch
      ]_vars

\* a call ended in the error of its own rejected fetch although the key was
\* cached meanwhile by an overlapping call
C16_Witness ==
    /\ Len(fetchLog) = 2
    /\ fetchLog[1].key = fetchLog[2].key
    /\ fetchLog[1].key[1] \in CachedEndpoints
    /\ fetchLog[1].status = "ok"
    /\ fetchLog[2].status = "failed"
    /\ ret = [key |-> fetchLog[2].key, status |-> "error", value |-> 2, from |-> "fetch"]
    /\ Lookup(baseCache, favoriteCache, flexCache, fetchLog[1].key) = 1

\* C17: every call on a primary or default endpoint that arrives more than
\* the favorite-reset interval after the last favorite reset sets
\* lastFavoriteReset to now and empties favorite before it looks anything up:
\* it is not answered from favorite, and favorite holds afterwards at most
\* the key this call itself promoted from flex.
C17_ResetBeforeLookup ==
    [][\A c \in Callers, e \in CachedEndpoints :
        LET key == CacheKey(e, NoParams)
        IN  (/\ Call(c, e, NoParams)
             /\ (now - lastFavoriteReset) > favoriteResetInterval)
            => (/\ lastFavoriteReset' = now
                /\ \/ favoriteCache' = EmptyMap
                   \/ /\ DOMAIN favoriteCache' = {key}
                      /\ FlexHas(flexCache, key)
                      /\ favoriteCache'[key] = FlexGet(flexCache, key)
                /\ \/ ret' = ret /\ Fetches(c, key)
                   \/ ret'.from \in {"base", "flex"} /\ fetchLog' = fetchLog)
      ]_vars

\* a key was promoted (it is in flex without an access count), and a call on
\* a primary endpoint, now fetching, has emptied favorite
C17_Witness ==
    LET key == CacheKey(DefaultEndpoint, NoParams)
    IN  /\ FlexHas(flexCache, key)
        /\ key \notin DOMAIN flexAccessCounts
        /\ favoriteCache = EmptyMap
        /\ lastFavoriteReset = now
        /\ now > favoriteResetInterval
        /\ Len(fetchLog) = 2
        /\ fetchLog[2].key[1] \in primaryEndpoints
        /\ fetchLog[2].status = "pending"

\* C18: the first construction leaves base, flex, favorite and the access
\* counts empty and both timestamps at construction time; every later
\* `new CacheManager()` returns the instance that exists already and changes
\* no tier, no access count and no timestamp.
C18_Singleton ==
    /\ (/\ baseCache = EmptyMap /\ flexCache = <<>> /\ favoriteCache = EmptyMap
        /\ flexAccessCounts = EmptyMap
        /\ lastBaseRefresh = now /\ lastFavoriteReset = now
        /\ instance.returned = instance.current)
    /\ [][Construct => (/\ UNCHANGED cacheVars
                        /\ instance'.current = instance.current
                        /\ instance'.returned = instance.current)]_vars

\* `new CacheManager()` was evaluated again after the tiers had been filled
\* and a timestamp had moved, and returned the first instance
C18_Witness ==
    /\ instance.news > 1
    /\ instance.returned = 1
    /\ baseCache # EmptyMap
    /\ flexCache # <<>>
    /\ lastBaseRefresh > 0

\* C19: a call that resets favorite leaves no access count from before the
\* reset: afterwards the access-count map holds at most the key of this call,
\* counted once for this call's own flex hit.
C19_ResetClearsCounts ==
    [][\A c \in Callers, e \in CachedEndpoints :
        LET key == CacheKey(e, NoParams)
        IN  (/\ Call(c, e, NoParams)
             /\ (now - lastFavoriteReset) > favoriteResetInterval)
            => \A k \in DOMAIN flexAccessCounts' :
                   /\ k = key
                   /\ FlexHas(flexCache, key)
                   /\ flexAccessCounts'[k] = 1
      ]_vars

\* C20: while calls do not overlap, neither interval elapses and at most
\* flexLimit distinct default keys have been requested, fetchFunction is not
\* invoked for a primary or default key for which an invocation has
\* succeeded: every earlier invocation for the key of a new one rejected.
C20_Shielding ==
    [][(Len(fetchLog') > Len(fetchLog) /\ driver'.pages <= flexLimit)
       => \A i \in 1 .. Len(fetchLog) :
              fetchLog[i].key = fetchLog'[Len(fetchLog')].key
              => fetchLog[i].status = "failed"
      ]_vars

\* flexLimit distinct keys have been requested and fetched, one rejected
\* fetch was repeated, and after its promotion the first key is being served
\* from favorite, exactly one interval after construction
C20_Witness ==
    /\ driver.pages = flexLimit
    /\ Len(flexCache) = flexLimit
    /\ Len(fetchLog) = flexLimit + 1
    /\ AllIdle
    /\ ret.from = "favorite"
    /\ ret.key = CacheKey(DefaultEndpoint, Page(1))
    /\ now = refreshInterval

\* the access count incrementAccessCount(key) starts from
CountOf(key) == IF key \in DOMAIN flexAccessCounts THEN flexAccessCounts[key] ELSE 0

\* C22: a default-endpoint call whose key is in flex and not in favorite, the
\* incremented access count staying below the promotion threshold, returns
\* the stored value and invokes nothing; afterwards the key is the newest
\* entry of flex with its value unchanged, and the other entries keep their
\* values and their relative order.
C22_FlexHitReorders ==
    [][\A c \in Callers, n \in RepeatablePages :
        LET key == CacheKey(DefaultEndpoint, Page(n))
        IN  (/\ TouchCall(c, n)
             /\ FlexHas(flexCache, key)
             /\ key \notin DOMAIN FavoriteAtLookup
             /\ CountOf(key) + 1 < favoriteThreshold)
            => (/\ ret' = [key |-> key, status |-> "value",
                           value |-> FlexGet(flexCache, key), from |-> "flex"]
                /\ fetchLog' = fetchLog
                /\ calls' = calls
                /\ flexCache' = Append(FlexDelete(flexCache, key),
                                       [k |-> key, v |-> FlexGet(flexCache, key)])
                /\ flexAccessCounts' = MapSet(flexAccessCounts, key, CountOf(key) + 1)
                /\ favoriteCache' = favoriteCache)
      ]_vars

\* the oldest entry of a full flex was hit and is now the newest, flex still
\* full
C22_Witness ==
    /\ Len(flexCache) = flexLimit
    /\ ret.from = "flex"
    /\ ret.key = CacheKey(DefaultEndpoint, Page(1))
    /\ flexCache[flexLimit].k = ret.key
    /\ flexCache[1].k = CacheKey(DefaultEndpoint, Page(2))
    /\ driver.pages = flexLimit

\* C23: when the result of a fetch is inserted into flex under a key flex
\* does not hold and flex holds flexLimit entries, flexClearAmount entries
\* are removed in one batch and flex holds flexLimit - flexClearAmount + 1
\* entries afterwards, the inserted key the newest; when flex holds fewer
\* than flexLimit entries nothing is removed.
C23_BatchSize ==
    [][\A c \in Callers :
        (/\ calls[c].endpoint = DefaultEndpoint
         /\ ~FlexHas(flexCache, calls[c].key)
         /\ Settle(c, TRUE))
        => IF Len(flexCache) = flexLimit
           THEN /\ Cardinality(Removed) = flexClearAmount
                /\ Len(flexCache') = flexLimit - flexClearAmount + 1
                /\ flexCache'[Len(flexCache')].k = calls[c].key
           ELSE Removed = {}
      ]_vars


\* C24: flex has no time-based expiry.  The passing of time changes no tier;
\* a call on a primary endpoint, whether or not it resets favorite or
\* refreshes base, leaves flex and the access counts as they were; a call on
\* a default endpoint changes nothing in flex and in the access counts but
\* the entry and the count of its own key, and when flex holds its key and
\* favorite (after a reset that came due) does not, it is answered from flex
\* without a fetch, however much time has passed; a call on an endpoint that
\* is not primary leaves base and lastBaseRefresh as they were.
C24_NoFlexExpiry ==
    [][/\ Tick => UNCHANGED cacheVars
       /\ \A c \in Callers, e \in Endpoints :
            LET key == CacheKey(e, NoParams)
            IN  Call(c, e, NoParams) =>
                /\ e \notin primaryEndpoints =>
                       /\ baseCache' = baseCache
                       /\ lastBaseRefresh' = lastBaseRefresh
                /\ e \in primaryEndpoints =>
                       /\ flexCache' = flexCache
                       /\ flexAccessCounts' = flexAccessCounts
                /\ FlexDelete(flexCache, key) = FlexDelete(flexCache', key)
                /\ \A k \in (DOMAIN flexAccessCounts \cup DOMAIN flexAccessCounts') \ {key} :
                       /\ k \in DOMAIN flexAccessCounts
                       /\ k \in DOMAIN flexAccessCounts'
                       /\ flexAccessCounts'[k] = flexAccessCounts[k]
                /\ key \notin FlexKeys(flexCache) =>
                       /\ flexCache' = flexCache
                       /\ flexAccessCounts' = flexAccessCounts
                /\ (/\ e = DefaultEndpoint
                    /\ key \in FlexKeys(flexCache)
                    /\ key \notin DOMAIN FavoriteAtLookup) =>
                       /\ ret' = [key |-> key, status |-> "value",
                                  value |-> flexCache[FlexIndex(flexCache, key)].v,
                                  from |-> "flex"]
                       /\ fetchLog' = fetchLog
      ]_vars

\* a call has been answered from flex after both intervals had run out, at
\* the moment it reset favorite
C24_Witness ==
    /\ ret.from = "flex"
    /\ now > favoriteResetInterval
    /\ now > refreshInterval
    /\ lastFavoriteReset = now
    /\ FlexHas(flexCache, ret.key)


\* value is what an invocation of fetchFunction made for key resolved with
ProducedFor(key, value) ==
    /\ value \in 1 .. Len(fetchLog)
    /\ fetchLog[value].key = key
    /\ fetchLog[value].status = "ok"

\* C26: in every reachable state the value held under a key in base, flex
\* or favorite, and the value a call has returned for a key, is the result
\* of a successful fetch made for that key; no entry holds undefined.
C26_ValueIntegrity ==
    /\ \A k \in DOMAIN baseCache : ProducedFor(k, baseCache[k])
    /\ \A i \in 1 .. Len(flexCache) : ProducedFor(flexCache[i].k, flexCache[i].v)
    /\ \A k \in DOMAIN favoriteCache : ProducedFor(k, favoriteCache[k])
    /\ ret.status = "value" => ProducedFor(ret.key, ret.value)

\* a key has been promoted and served from favorite while another fetch for
\* it is still in flight
C26_Witness ==
    /\ favoriteCache # EmptyMap
    /\ ret.from = "favorite"
    /\ \E c \in Callers : calls[c].pc = "await" /\ calls[c].key = ret.key


\* C27: in every reachable state every access count in flexAccessCounts is
\* an integer from 1 to favoriteThreshold - 1; no count is stored as 0 and
\* none stays once it has reached the threshold.
C27_CountRange ==
    \A k \in DOMAIN flexAccessCounts :
        flexAccessCounts[k] \in 1 .. favoriteThreshold - 1

\* a key is one access away from its promotion
C27_Witness ==
    \E k \in DOMAIN flexAccessCounts : flexAccessCounts[k] = favoriteThreshold - 1


\* C28: a flex hit never triggers a bulk eviction.  A call whose key is in
\* flex removes no other key from flex, and the size its moveToTopOfFlex
\* tests, taken after the key's delete, is below flexLimit; a step removes
\* more than one key from flex only when it is the continuation of a
\* successful fetch on a default endpoint whose key flex did not hold,
\* finding flex at flexLimit entries.
C28_HitNeverEvicts ==
    [][/\ \A c \in Callers, n \in RepeatablePages :
            LET key == CacheKey(DefaultEndpoint, Page(n))
            IN  (TouchCall(c, n) /\ key \in FlexKeys(flexCache))
                => /\ Removed \subseteq {key}
                   /\ Len(FlexDelete(flexCache, key)) < flexLimit
                   /\ ~FlexFull(FlexDelete(flexCache, key))
       /\ Cardinality(Removed) > 1
            => \E c \in Callers :
                   /\ calls[c].pc = "await"
                   /\ calls'[c].pc = "idle"
                   /\ calls[c].endpoint = DefaultEndpoint
                   /\ fetchLog'[calls[c].fetch].status = "ok"
                   /\ calls[c].key \notin FlexKeys(flexCache)
                   /\ Len(flexCache) = flexLimit
      ]_vars

\* the page that filled flex has been served from flex with flex full, and
\* flex is still full
C28_Witness ==
    /\ ret.from = "flex"
    /\ ret.key = CacheKey(DefaultEndpoint, Page(flexLimit))
    /\ Len(flexCache) = flexLimit
    /\ flexCache[flexLimit].k = ret.key


\* C29: once base has been refreshed, every value base holds is the result
\* of a fetch started after that refresh: the result of a fetch that was in
\* flight when the refresh was made is not stored into the cleared tier.
C29_FreshAfterRefresh ==
    \A k \in DOMAIN baseCache : baseCache[k] > driver.refreshed


\* the lookup of lines 99-120 finds key in a tier
Hit(endpoint, key) ==
    IF endpoint \in blacklistedEndpoints
    THEN FALSE
    ELSE IF endpoint \in primaryEndpoints
    THEN ~needsBaseCacheRefresh /\ key \in DOMAIN baseCache
    ELSE key \in DOMAIN FavoriteAtLookup \/ key \in FlexKeys(flexCache)

\* C30: every call of handle() completes.  A call that finds its key in a
\* tier returns in the step of the call, without suspending and without a
\* fetch; a call that invokes fetchFunction suspends on that one fetch, and
\* when the fetch settles the call returns or rejects in one step that
\* moves no other call, whatever the other calls are doing; so every
\* suspended call is eventually back at idle.
C30_Completes ==
    /\ [][/\ \A c \in Callers, e \in Endpoints :
               LET key == CacheKey(e, NoParams)
               IN  AnyCall(c, e, NoParams) =>
                       IF Hit(e, key)
                       THEN /\ calls' = calls
                            /\ fetchLog' = fetchLog
                            /\ ret'.status = "value" /\ ret'.key = key
                       ELSE /\ calls'[c].pc = "await"
                            /\ Fetches(c, key)
          /\ \A c \in Callers, ok \in BOOLEAN :
               Settled(c, ok) =>
                   /\ calls'[c].pc = "idle"
                   /\ ret'.status = (IF ok THEN "value" ELSE "error")
                   /\ ret'.key = calls[c].key
                   /\ \A d \in Callers \ {c} : calls'[d] = calls[d]
         ]_vars
    /\ \A c \in Callers : (calls[c].pc = "await") ~> (calls[c].pc = "idle")

\* a call has returned the result of its fetch while the call that suspended
\* before it is still waiting for its own
C30_Witness ==
    /\ ret.from = "fetch"
    /\ ret.value = 2
    /\ \E c \in Callers : calls[c].pc = "await" /\ calls[c].fetch = 1


\* every entry's access count is the number of get() calls that found it
\* since it was created
CountsAreGets(cache, gets) ==
    \A i \in 1 .. Len(cache) : cache[i].accessCount = gets[cache[i].k]

\* C21: BaseCache.get and the access metadata are coupled.  A get of a key
\* in the store returns the stored value, adds exactly 1 to that entry's
\* access count, sets its last-access time to the current time and changes
\* nothing else; a get of a key not in the store returns null and changes
\* nothing; has, size and getMetadata change no entry, and getMetadata
\* reports the entry's metadata; so in every state an entry's access count
\* is the number of successful gets of its key since it was created.
C21_GetCountsAccess ==
    /\ CountsAreGets(store.cache, driver.gets)
    /\ [][/\ \A key \in StoreKeys :
               get(key) =>
                   IF CacheHas(store.cache, key)
                   THEN LET i == CacheIndex(store.cache, key)
                        IN  /\ store'.out = Outcome("value", store.cache[i].value, NoMetadata)
                            /\ store'.cache = [store.cache EXCEPT
                                   ![i] = [@ EXCEPT !.accessCount = @ + 1,
                                                    !.lastAccessed = now]]
                            /\ store'.lastUpdated = store.lastUpdated
                   ELSE /\ store'.out.kind = "null"
                        /\ store'.cache = store.cache
                        /\ store'.lastUpdated = store.lastUpdated
          /\ (size \/ \E key \in StoreKeys : has(key) \/ getMetadata(key))
               => /\ store'.cache = store.cache
                  /\ store'.lastUpdated = store.lastUpdated
          /\ \A key \in StoreKeys :
               (getMetadata(key) /\ CacheHas(store.cache, key))
               => LET entry == store.cache[CacheIndex(store.cache, key)]
                  IN  store'.out.meta =
                          <<entry.createdAt, entry.lastAccessed, entry.accessCount>>
          /\ CountsAreGets(store'.cache, driver'.gets)
         ]_vars

\* an entry that was created, read twice at a later time and then updated
\* reports an access count of 2 through getMetadata
C21_Witness ==
    /\ store.out.kind = "metadata"
    /\ \E i \in 1 .. Len(store.cache) :
           /\ store.cache[i].accessCount = 2
           /\ store.cache[i].value = 2
           /\ store.cache[i].lastAccessed > store.cache[i].createdAt
           /\ store.out.meta = <<store.cache[i].createdAt, store.cache[i].lastAccessed, 2>>

\* C25: massDelete(start) without an end index on a store that is not empty
\* removes exactly |start| entries, those created first when start > 0 and
\* those created last otherwise, and keeps every other entry; when |start|
\* is larger than the size of the store it throws and removes nothing.
C25_MassDeleteCount ==
    [][\A start \in StartArgs :
        (massDelete(start, NoEnd) /\ store.cache # <<>>)
        => LET n       == IF start < 0 THEN -start ELSE start
               removed == CacheKeys(store.cache) \ CacheKeys(store'.cache)
           IN  IF n > Len(store.cache)
               THEN /\ store'.out = Thrown
                    /\ store'.cache = store.cache
               ELSE /\ Cardinality(removed) = n
                    /\ store'.cache = SelectSeq(store.cache, LAMBDA e : e.k \notin removed)
                    /\ \A i, j \in 1 .. Len(store.cache) :
                           (store.cache[i].k \in removed /\ store.cache[j].k \notin removed)
                           => IF start > 0
                              THEN store.cache[i].createdAt <= store.cache[j].createdAt
                              ELSE store.cache[i].createdAt >= store.cache[j].createdAt
      ]_vars

====
